---- MODULE Spec2Model ----
(***************************************************************************)
(* DiskViz: the directory scanner (diskviz/scanner.py) and the treemap     *)
(* layout (diskviz/treemap.py), modelled as state machines.                *)
(*                                                                         *)
(* The scanner runs over a modelled filesystem: a function from absolute   *)
(* paths (sequences of names) to entries.  The calls the scanner makes     *)
(* into pathlib and os (is_symlink, is_dir, resolve, stat, scandir,        *)
(* DirEntry.is_file) are modelled by what they return or raise on that     *)
(* filesystem (CPython 3.8 - 3.12 semantics: pathlib re-raises every       *)
(* OSError other than ENOENT, ENOTDIR, EBADF, ELOOP).                      *)
(***************************************************************************)
EXTENDS Integers, Sequences, FiniteSets, TLC

VARIABLES fs, scan, lay, flt, app

vars == <<fs, scan, lay, flt, app>>

(***************************************************************************)
(* Bounds of the model.                                                    *)
(***************************************************************************)
MaxSize == 2
MaxDepthArg == 2
MaxLinkHops == 3
DirStatSize == 1
NowNs == 5

Max(a, b) == IF a >= b THEN a ELSE b

Front(s) == SubSeq(s, 1, Len(s) - 1)

(***************************************************************************)
(* The filesystem.  An entry is a regular file, a directory or a symbolic  *)
(* link.  perm (directories): "rwx" listable and searchable, "---" neither *)
(* (opendir fails with EACCES), "r--" listable but not searchable (lstat   *)
(* and stat of its entries fail with EACCES), "eio" opendir fails with     *)
(* an I/O error.                                                           *)
(***************************************************************************)
File(s) == [kind |-> "file", size |-> s, mtime |-> 2, perm |-> "rwx", target |-> <<>>]
Dir(p) == [kind |-> "dir", size |-> DirStatSize, mtime |-> 1, perm |-> p, target |-> <<>>]
Link(t) == [kind |-> "link", size |-> 0, mtime |-> 3, perm |-> "rwx", target |-> t]
Absent == [kind |-> "absent", size |-> 0, mtime |-> 0, perm |-> "rwx", target |-> <<>>]

R == <<"r">>
RA == <<"r", "a">>
RB == <<"r", "B">>
RC == <<"r", "c">>
RPROC == <<"r", "proc">>
RAC == <<"r", "a", "c">>
RACE == <<"r", "a", "c", "e">>
RBD == <<"r", "B", "d">>
ROOTFILE == <<"f">>
ROOTLINK == <<"l">>
GONE == <<"gone">>

FileSizes == 0 .. MaxSize

RacVariants ==
    {Absent, Dir("rwx"), Dir("---"), Link(R), Link(RB)} \cup {File(s) : s \in FileSizes}

RaVariants ==
    {Absent, Link(RB), Link(R), Link(RA), Link(<<"r", "gone">>)}
        \cup {File(s) : s \in FileSizes}
        \cup {Dir(p) : p \in {"rwx", "---", "r--", "eio"}}

RbVariants == {Absent, Dir("rwx")} \cup {File(s) : s \in FileSizes}

MkFs(r, ra, rac, rb, rbd, rc) ==
    LET slot == (R :> r) @@ (RA :> ra) @@ (RAC :> rac) @@ (RB :> rb) @@ (RBD :> rbd)
                @@ (RC :> rc) @@ (RPROC :> File(MaxSize)) @@ (RACE :> File(1))
                @@ (ROOTFILE :> File(1)) @@ (ROOTLINK :> Link(R))
        present(p) ==
            /\ slot[p].kind # "absent"
            /\ p = RAC => ra.kind = "dir"
            /\ p = RACE => (ra.kind = "dir" /\ rac.kind = "dir")
            /\ p = RBD => rb.kind = "dir"
    IN  [p \in {q \in DOMAIN slot : present(q)} |-> slot[p]]

FileSystems ==
    { MkFs(r, ra, rac, rb, rbd, rc) :
        r \in {Dir("rwx"), Dir("---"), Dir("r--")},
        ra \in RaVariants,
        rac \in RacVariants,
        rb \in RbVariants,
        rbd \in {Absent, File(1)},
        rc \in {Absent, File(1)} }

Roots == {R, ROOTFILE, ROOTLINK, GONE}

(***************************************************************************)
(* Names: str.lower() and the order of strings, on the names in use.       *)
(***************************************************************************)
RawOrder == <<"proc", "e", "d", "c", "B", "a">>
LowerName(n) == IF n = "B" THEN "b" ELSE n
SortedStrings == <<"B", "a", "b", "c", "d", "e", "proc">>
StrRank(s) == CHOOSE i \in 1 .. Len(SortedStrings) : SortedStrings[i] = s

IGNORED_NAMES == {"$Recycle.Bin", "System Volume Information", "proc", "sys", "dev"}

(***************************************************************************)
(* Path resolution by the operating system.  (Definitions take the result  *)
(* of a call they depend on as a parameter, so that each call is written   *)
(* once.)                                                                  *)
(***************************************************************************)
RECURSIVE RealPath(_, _, _)
RECURSIVE Walk(_, _, _)

\* the last component of p looked up in its resolved parent directory `par`
WalkFrom(f, p, par) ==
    IF par.err # "" THEN [err |-> par.err, path |-> p]
    ELSE IF par.path # <<>> /\ f[par.path].kind # "dir" THEN [err |-> "ENOTDIR", path |-> p]
    ELSE IF par.path # <<>> /\ f[par.path].perm \in {"---", "r--"}
         THEN [err |-> "EACCES", path |-> p]
    ELSE IF Append(par.path, p[Len(p)]) \in DOMAIN f
         THEN [err |-> "", path |-> Append(par.path, p[Len(p)])]
    ELSE [err |-> "ENOENT", path |-> p]

\* Where the last component of p lives, its own symlink not followed (lstat).
Walk(f, p, fuel) == WalkFrom(f, p, RealPath(f, Front(p), fuel))

\* The entry p names, every symlink followed (stat); w is Walk(f, p, fuel).
RealPath(f, p, fuel) ==
    IF p = <<>> THEN [err |-> "", path |-> <<>>]
    ELSE (LET Follow(w) ==
                  IF w.err # "" THEN w
                  ELSE IF f[w.path].kind = "link"
                       THEN IF fuel = 0 THEN [err |-> "ELOOP", path |-> p]
                            ELSE RealPath(f, f[w.path].target, fuel - 1)
                       ELSE w
          IN  Follow(Walk(f, p, fuel)))

LStat(f, p) == Walk(f, p, MaxLinkHops)
Stat(f, p) == RealPath(f, p, MaxLinkHops)

IgnoredErrnos == {"ENOENT", "ENOTDIR", "ELOOP"}

Returns(v) == [exc |-> "", val |-> v]
Raises(e, v) == [exc |-> e, val |-> v]

\* pathlib's type tests on the result s of lstat / stat: the errors in
\* IgnoredErrnos give False, any other error is re-raised
TypeTest(f, s, kind) ==
    IF s.err = "" THEN Returns(f[s.path].kind = kind)
    ELSE IF s.err \in IgnoredErrnos THEN Returns(FALSE)
    ELSE Raises("PermissionError", FALSE)

\* Path.is_symlink()
IsSymlink(f, p) == TypeTest(f, LStat(f, p), "link")

\* Path.is_dir()
IsDir(f, p) == TypeTest(f, Stat(f, p), "dir")

\* Path.resolve(): non-strict, but a symlink loop raises RuntimeError.
ResolveOf(p, s) ==
    IF s.err = "" THEN Returns(s.path)
    ELSE IF s.err = "ELOOP" THEN Raises("RuntimeError", p)
    ELSE Returns(p)
Resolve(f, p) == ResolveOf(p, Stat(f, p))

\* _safe_stat: <<size, mtime>>, or <<0, now>> on any failure.
SafeStatOf(f, s) ==
    IF s.err = "" THEN <<f[s.path].size, f[s.path].mtime>> ELSE <<0, NowNs>>
SafeStat(f, p) == SafeStatOf(f, Stat(f, p))

\* DirEntry.is_file() of the entry `name` of the directory listed as `p`:
\* the entry's type comes with the listing (kind); a symlink entry is
\* stat'ed (s).
EntryIsFileOf(f, kind, s) ==
    IF kind # "link" THEN Returns(kind = "file")
    ELSE IF s.err = "" THEN Returns(f[s.path].kind = "file")
    ELSE IF s.err = "ENOENT" THEN Returns(FALSE)
    ELSE IF s.err = "EACCES" THEN Raises("PermissionError", FALSE)
    ELSE Raises("OSError", FALSE)
EntryIsFile(f, p, name) ==
    EntryIsFileOf(f, f[Append(Stat(f, p).path, name)].kind, Stat(f, Append(p, name)))

\* os.scandir(p): the names in the directory, in the directory's own order.
ScandirOf(f, s) ==
    IF s.err = "EACCES" THEN Raises("PermissionError", <<>>)
    ELSE IF s.err # "" THEN Raises("OSError", <<>>)
    ELSE IF f[s.path].kind # "dir" THEN Raises("OSError", <<>>)
    ELSE IF f[s.path].perm = "---" THEN Raises("PermissionError", <<>>)
    ELSE IF f[s.path].perm = "eio" THEN Raises("OSError", <<>>)
    ELSE Returns(SelectSeq(RawOrder, LAMBDA n : Append(s.path, n) \in DOMAIN f))
Scandir(f, p) == ScandirOf(f, Stat(f, p))

(***************************************************************************)
(* Stable sorting (list.sort and sorted are stable): ascending in the     *)
(* key k, a pair of integers compared as Python compares tuples.           *)
(***************************************************************************)
KeyLE(k1, k2) == k1[1] < k2[1] \/ (k1[1] = k2[1] /\ k1[2] <= k2[2])

InsertAt(s, x, idx) == SubSeq(s, 1, idx) \o <<x>> \o SubSeq(s, idx + 1, Len(s))

InsertByKey(s, x) ==
    InsertAt(s, x, Cardinality({i \in 1 .. Len(s) : KeyLE(s[i].k, x.k)}))

RECURSIVE StableSort(_)
StableSort(s) ==
    IF s = <<>> THEN <<>> ELSE InsertByKey(StableSort(Front(s)), s[Len(s)])

Values(sorted) == [i \in 1 .. Len(sorted) |-> sorted[i].v]

\* key=lambda e: (e.is_file(), e.name.lower())
EntryNameKeyRaw(name) == StrRank(name)
EntryNameKey(name) == StrRank(LowerName(name))

EntrySortKey(isFile, name) == <<IF isFile THEN 1 ELSE 0, EntryNameKey(name)>>

\* key=lambda node: node.size, reverse=True
ChildSortKey(node) == <<0 - node.size, 0>>

SortChildren(children) ==
    Values(StableSort([i \in 1 .. Len(children) |->
                          [k |-> ChildSortKey(children[i]), v |-> children[i]]]))

\* sorted(it, key=...): the first key that raises ends the sort with its
\* exception; isFile[i] is the result of is_file() on names[i]
SortEntries(names, isFile) ==
    IF \E i \in 1 .. Len(names) : isFile[i].exc # ""
    THEN Raises(isFile[CHOOSE i \in 1 .. Len(names) :
                         /\ isFile[i].exc # ""
                         /\ \A j \in 1 .. i - 1 : isFile[j].exc = ""].exc, <<>>)
    ELSE Returns(Values(StableSort([i \in 1 .. Len(names) |->
                    [k |-> EntrySortKey(isFile[i].val, names[i]), v |-> names[i]]])))

ListNames(f, p, sc) ==
    IF sc.exc # "" THEN sc
    ELSE SortEntries(sc.val, [i \in 1 .. Len(sc.val) |-> EntryIsFile(f, p, sc.val[i])])

\* with os.scandir(path) as it: entries = sorted(it, key=...)
ListEntries(f, p) == ListNames(f, p, Scandir(f, p))

(***************************************************************************)
(* scanner.py                                                              *)
(***************************************************************************)
DiskNode(path, size, is_dir, modified_ns, children) ==
    [path |-> path, size |-> size, is_dir |-> is_dir, modified_ns |-> modified_ns,
     children |-> children]

NoNode == DiskNode(<<>>, 0, FALSE, 0, <<>>)

ScanStats == [files_scanned |-> 0, dirs_scanned |-> 0, permission_denied |-> <<>>,
              errors |-> <<>>]

\* except PermissionError / except (FileNotFoundError, OSError) around the listing
RecordListingFailureAsError(stats, path, exc) ==
    IF exc = "" THEN stats ELSE [stats EXCEPT !.errors = Append(@, path)]
RecordListingFailure(stats, path, exc) ==
    IF exc = "PermissionError" THEN [stats EXCEPT !.permission_denied = Append(@, path)]
    ELSE IF exc # "" THEN [stats EXCEPT !.errors = Append(@, path)]
    ELSE stats

\* size = max(size, dir_size)
DirSizeSumOnly(size, dir_size) == size
DirSize(size, dir_size) == Max(size, dir_size)

\* if depth < max_depth: (the directory is listed)
ExpandsAtOrBelow(depth, max_depth) == depth <= max_depth
Expands(depth, max_depth) == depth < max_depth

\* if not follow_symlinks and path.is_symlink():
LinkTestSkipped(f, path, follow_symlinks) == Returns(FALSE)
LinkTest(f, path, follow_symlinks) ==
    IF follow_symlinks THEN Returns(FALSE) ELSE IsSymlink(f, path)

\* an exception leaving _scan_node
Propagate(exc, stats) == [exc |-> exc, node |-> NoNode, stats |-> stats]

\* a leaf returned without stats.files_scanned += 1
LeafNodeUncounted(path, stats, st) ==
    [exc |-> "", node |-> DiskNode(path, st[1], FALSE, st[2], <<>>), stats |-> stats]

\* size, mtime = _safe_stat(...); stats.files_scanned += 1;
\* return DiskNode(path, size, False, mtime, [])
LeafNode(path, stats, st) ==
    [exc |-> "",
     node |-> DiskNode(path, st[1], FALSE, st[2], <<>>),
     stats |-> [stats EXCEPT !.files_scanned = @ + 1]]

\* lines 86-89: target = path.resolve(); size, mtime = _safe_stat(target)
LinkLeaf(f, path, stats, target) ==
    IF target.exc # "" THEN Propagate(target.exc, stats)
    ELSE LeafNode(path, stats, SafeStat(f, target.val))

\* lines 119-124; loop is what the directory branch collected, own is
\* _safe_stat(path)
FinishDir(path, loop, own) ==
    IF loop.exc # "" THEN Propagate(loop.exc, loop.stats)
    ELSE [exc |-> "",
          node |-> DiskNode(path, DirSize(loop.size, own[1]), TRUE,
                            Max(loop.mtime, own[2]), SortChildren(loop.children)),
          stats |-> [loop.stats EXCEPT !.dirs_scanned = @ + 1]]

\* lines 114-117: the directory summary when the depth limit is reached
Summary(stats, st) ==
    [exc |-> "", size |-> st[1], mtime |-> st[2], children |-> <<>>, stats |-> stats]

\* lines 111-113
Collected(acc, child) ==
    [exc |-> "",
     size |-> acc.size + child.node.size,
     mtime |-> Max(acc.mtime, child.node.modified_ns),
     children |-> Append(acc.children, child.node),
     stats |-> child.stats]

RECURSIVE ScanNode(_, _, _, _, _, _)
RECURSIVE ScanEntries(_, _, _, _, _, _, _, _)

\* for entry in entries: ... (lines 106-113); acc carries size, mtime,
\* children and stats, and the exception a child raised
ScanEntries(f, path, entries, i, depth, max_depth, follow_symlinks, acc) ==
    IF i > Len(entries) THEN acc
    ELSE IF entries[i] \in IGNORED_NAMES
         THEN ScanEntries(f, path, entries, i + 1, depth, max_depth, follow_symlinks, acc)
    ELSE (LET Continue(child) ==
                  IF child.exc # ""
                  THEN [acc EXCEPT !.exc = child.exc, !.stats = child.stats]
                  ELSE ScanEntries(f, path, entries, i + 1, depth, max_depth,
                                   follow_symlinks, Collected(acc, child))
          IN  Continue(ScanNode(f, Append(path, entries[i]), depth + 1, max_depth,
                                follow_symlinks, acc.stats)))

\* lines 92-117: what the directory branch collects
ScanListed(f, path, depth, max_depth, follow_symlinks, stats, ls) ==
    ScanEntries(f, path, IF ls.exc = "" THEN ls.val ELSE <<>>, 1, depth, max_depth,
                follow_symlinks,
                [exc |-> "", size |-> 0, mtime |-> 0, children |-> <<>>,
                 stats |-> RecordListingFailure(stats, path, ls.exc)])

ScanDir(f, path, depth, max_depth, follow_symlinks, stats) ==
    FinishDir(path,
              IF Expands(depth, max_depth)
              THEN ScanListed(f, path, depth, max_depth, follow_symlinks, stats,
                              ListEntries(f, path))
              ELSE Summary(stats, SafeStat(f, path)),
              SafeStat(f, path))

\* lines 91-128, isdir is path.is_dir()
ScanTyped(f, path, depth, max_depth, follow_symlinks, stats, isdir) ==
    IF isdir.exc # "" THEN Propagate(isdir.exc, stats)
    ELSE IF isdir.val THEN ScanDir(f, path, depth, max_depth, follow_symlinks, stats)
    ELSE LeafNode(path, stats, SafeStat(f, path))

\* lines 85-128, link is the test of line 85
ScanTested(f, path, depth, max_depth, follow_symlinks, stats, link) ==
    IF link.exc # "" THEN Propagate(link.exc, stats)
    ELSE IF link.val THEN LinkLeaf(f, path, stats, Resolve(f, path))
    ELSE ScanTyped(f, path, depth, max_depth, follow_symlinks, stats, IsDir(f, path))

\* _scan_node: [exc, node, stats]
ScanNode(f, path, depth, max_depth, follow_symlinks, stats) ==
    ScanTested(f, path, depth, max_depth, follow_symlinks, stats,
               LinkTest(f, path, follow_symlinks))

\* lines 64-67, resolved is root.expanduser().resolve()
ScanResolved(f, resolved, max_depth, follow_symlinks) ==
    IF resolved.exc # "" THEN Propagate(resolved.exc, ScanStats)
    ELSE ScanNode(f, resolved.val, 0, max_depth, follow_symlinks, ScanStats)

\* scan_directory: [exc, node, stats]
scan_directory(f, root, max_depth, follow_symlinks) ==
    ScanResolved(f, Resolve(f, root), max_depth, follow_symlinks)

(***************************************************************************)
(* Exact arithmetic for treemap.py.  The layout is computed on floats; the *)
(* model computes it on exact non-negative rationals.  A number is         *)
(* [n, d, e], standing for (n / d) * 10^e, with n / d in lowest terms,     *)
(* neither n nor d a multiple of 10 and e as close to 0 as that allows, so *)
(* that equal numbers are equal records and 1e-6 and its powers cost no    *)
(* digits.                                                                 *)
(***************************************************************************)
RECURSIVE Gcd(_, _)
Gcd(a, b) == IF b = 0 THEN a ELSE Gcd(b, a % b)

Q(n, d, e) == [n |-> n, d |-> d, e |-> e]
Zero == Q(0, 1, 0)
One == Q(1, 1, 0)

\* the literal 1e-6
Epsilon == Q(1, 1, 0 - 6)

Fits(a, b) == a <= 2147483647 \div b

\* the exponent moved towards 0 while neither n nor d becomes a multiple of 10
RECURSIVE TowardZero(_, _, _)
TowardZero(n, d, e) ==
    IF e > 0 /\ d % 2 = 0 THEN TowardZero(n * 5, d \div 2, e - 1)
    ELSE IF e > 0 /\ d % 5 = 0 THEN TowardZero(n * 2, d \div 5, e - 1)
    ELSE IF e < 0 /\ n % 2 = 0 THEN TowardZero(n \div 2, d * 5, e + 1)
    ELSE IF e < 0 /\ n % 5 = 0 THEN TowardZero(n \div 5, d * 2, e + 1)
    ELSE Q(n, d, e)
RECURSIVE StripTensBelow(_, _, _)
StripTensBelow(n, d, e) ==
    IF d % 10 = 0 THEN StripTensBelow(n, d \div 10, e - 1) ELSE TowardZero(n, d, e)
RECURSIVE StripTens(_, _, _)
StripTens(n, d, e) ==
    IF n % 10 = 0 THEN StripTens(n \div 10, d, e + 1) ELSE StripTensBelow(n, d, e)

\* (n / d) * 10^e as a number
Lowest(n, d, e, g) == StripTens(n \div g, d \div g, e)
Canon(n, d, e) == IF n = 0 THEN Zero ELSE Lowest(n, d, e, Gcd(n, d))
QFrac(n, d) == Canon(n, d, 0)
QInt(i) == Canon(i, 1, 0)

MulReduced(a, b, g1, g2) ==
    Canon((a.n \div g1) * (b.n \div g2), (a.d \div g2) * (b.d \div g1), a.e + b.e)
QMul(x, y) == MulReduced(x, y, Gcd(x.n, y.d), Gcd(y.n, x.d))

QInv(x) == Canon(x.d, x.n, 0 - x.e)
QDiv(x, y) == QMul(x, QInv(y))

\* a / b <= c / d for a, c >= 0 and b, d > 0, without multiplying
RECURSIVE FracLE(_, _, _, _)
FracLE(a, b, c, d) ==
    IF a \div b # c \div d THEN a \div b < c \div d
    ELSE IF a % b = 0 THEN TRUE
    ELSE IF c % d = 0 THEN FALSE
    ELSE FracLE(d, c % d, b, a % b)

\* (a / b) * 10^k <= c / d for k >= 0.  When neither a nor d can take another
\* factor 10, a * d * 10 is more than any b * c that fits, and a * d * 100
\* more than any b * c at all.
RECURSIVE ScaledLE(_, _, _, _, _)
ScaledLE(a, b, c, d, k) ==
    IF k = 0 THEN FracLE(a, b, c, d)
    ELSE IF Fits(a, 10) THEN ScaledLE(a * 10, b, c, d, k - 1)
    ELSE IF Fits(d, 10) THEN ScaledLE(a, b, c, d * 10, k - 1)
    ELSE IF k >= 2 \/ Fits(b, c) THEN FALSE
    ELSE FracLE(a * 10, b, c, d)

QLE(x, y) ==
    IF x.n = 0 \/ x = y THEN TRUE
    ELSE IF y.n = 0 THEN FALSE
    ELSE IF x.e >= y.e THEN ScaledLE(x.n, x.d, y.n, y.d, x.e - y.e)
    ELSE ~ScaledLE(y.n, y.d, x.n, x.d, y.e - x.e)

QMax(x, y) == IF QLE(x, y) THEN y ELSE x
QMin(x, y) == IF QLE(x, y) THEN x ELSE y

\* n * 10^k
RECURSIVE Scaled(_, _)
Scaled(n, k) == IF k = 0 THEN n ELSE Scaled(n * 10, k - 1)

AddAligned(xn, xd, yn, yd, e, g) ==
    Canon(xn * (yd \div g) + yn * (xd \div g), xd * (yd \div g), e)
AddAt(x, y, e) ==
    AddAligned(Scaled(x.n, x.e - e), x.d, Scaled(y.n, y.e - e), y.d, e, Gcd(x.d, y.d))
QAdd(x, y) ==
    IF x.n = 0 THEN y
    ELSE IF y.n = 0 THEN x
    ELSE AddAt(x, y, IF x.e <= y.e THEN x.e ELSE y.e)

\* max(x - y, 0)
SubAligned(xn, xd, yn, yd, e, g) ==
    Canon(xn * (yd \div g) - yn * (xd \div g), xd * (yd \div g), e)
SubAt(x, y, e) ==
    SubAligned(Scaled(x.n, x.e - e), x.d, Scaled(y.n, y.e - e), y.d, e, Gcd(x.d, y.d))
QMonus(x, y) ==
    IF QLE(x, y) THEN Zero
    ELSE IF y.n = 0 THEN x
    ELSE SubAt(x, y, IF x.e <= y.e THEN x.e ELSE y.e)

(***************************************************************************)
(* treemap.py.  A node of the tree being laid out is referred to by its    *)
(* position: <<>> is the root, Append(p, i) the i-th child of the node at  *)
(* p.  An Optional value is <<>> (None) or <<v>>.                          *)
(***************************************************************************)
Rect(x, y, width, height) == [x |-> x, y |-> y, width |-> width, height |-> height]

NodeRect(node, rect, depth, parent) ==
    [node |-> node, rect |-> rect, depth |-> depth, parent |-> parent]

RECURSIVE NodeOf(_, _)
NodeOf(tree, pos) ==
    IF pos = <<>> THEN tree ELSE NodeOf(tree.children[Head(pos)], Tail(pos))

\* sum, max and min of f[lo], ..., f[hi]
RECURSIVE SumInt(_, _, _)
SumInt(f, lo, hi) ==
    IF lo > hi THEN 0
    ELSE IF lo = hi THEN f[lo]
    ELSE SumInt(f, lo, (lo + hi) \div 2) + SumInt(f, (lo + hi) \div 2 + 1, hi)

RECURSIVE QSum(_, _, _)
QSum(f, lo, hi) ==
    IF lo > hi THEN Zero
    ELSE IF lo = hi THEN f[lo]
    ELSE QAdd(QSum(f, lo, (lo + hi) \div 2), QSum(f, (lo + hi) \div 2 + 1, hi))

RECURSIVE QMaxOf(_, _, _)
QMaxOf(f, lo, hi) ==
    IF lo = hi THEN f[lo]
    ELSE QMax(QMaxOf(f, lo, (lo + hi) \div 2), QMaxOf(f, (lo + hi) \div 2 + 1, hi))

RECURSIVE QMinOf(_, _, _)
QMinOf(f, lo, hi) ==
    IF lo = hi THEN f[lo]
    ELSE QMin(QMinOf(f, lo, (lo + hi) \div 2), QMinOf(f, (lo + hi) \div 2 + 1, hi))

Areas(items) == [i \in 1 .. Len(items) |-> items[i].area]

\* _worst_ratio for a non-empty row (_squarify never asks for an empty one)
Square(x) == QMul(x, x)
WorstOf(side2, total2, max_area, min_area) ==
    QMax(QDiv(QMul(side2, max_area), total2), QDiv(total2, QMul(side2, min_area)))
WorstOfAreas(short_side, areas, n) ==
    WorstOf(Square(short_side), Square(QSum(areas, 1, n)), QMaxOf(areas, 1, n),
            QMinOf(areas, 1, n))
ClampedAreas(row) == [i \in 1 .. Len(row) |-> QMax(row[i].area, Epsilon)]
ShortSide(rect) == QMax(QMin(rect.width, rect.height), Epsilon)
WorstRatio(row, rect) == WorstOfAreas(ShortSide(rect), ClampedAreas(row), Len(row))

\* horizontal = rect.width >= rect.height
Horizontal(rect) == QLE(rect.height, rect.width)

\* the loop of _layout_row: the members side by side along the row, each
\* area / max(thickness, 1e-6) long, pos the running x (or y)
RowMember(rect, horizontal, pos, extent, thickness) ==
    IF horizontal THEN Rect(pos, rect.y, extent, thickness)
    ELSE Rect(rect.x, pos, thickness, extent)
RECURSIVE RowLoop(_, _, _, _, _, _)
RowPlace(row, i, pos, rect, horizontal, thickness, extent) ==
    <<[child |-> row[i].child,
       rect |-> RowMember(rect, horizontal, pos, extent, thickness)]>>
    \o RowLoop(row, i + 1, QAdd(pos, extent), rect, horizontal, thickness)
RowLoop(row, i, pos, rect, horizontal, thickness) ==
    IF i > Len(row) THEN <<>>
    ELSE RowPlace(row, i, pos, rect, horizontal, thickness,
                  QDiv(row[i].area, QMax(thickness, Epsilon)))

\* what is left of rect beside the row
RowRest(rect, horizontal, thickness) ==
    IF horizontal
    THEN Rect(rect.x, QAdd(rect.y, thickness), rect.width, QMonus(rect.height, thickness))
    ELSE Rect(QAdd(rect.x, thickness), rect.y, QMonus(rect.width, thickness), rect.height)

\* row_height = row_area / max(rect.width, 1e-6), or row_width likewise
RowThickness(row, rect, horizontal) ==
    QDiv(QSum(Areas(row), 1, Len(row)),
         QMax(IF horizontal THEN rect.width ELSE rect.height, Epsilon))

LaidRow(row, rect, horizontal, thickness) ==
    [placed |-> RowLoop(row, 1, IF horizontal THEN rect.x ELSE rect.y, rect, horizontal,
                        thickness),
     rect |-> RowRest(rect, horizontal, thickness)]
LayoutRowAlong(row, rect, horizontal) ==
    LaidRow(row, rect, horizontal, RowThickness(row, rect, horizontal))

\* _layout_row: what it appends to acc, and the rectangle it returns
LayoutRow(row, rect) ==
    IF row = <<>> THEN [placed |-> <<>>, rect |-> rect]
    ELSE LayoutRowAlong(row, rect, Horizontal(rect))

\* the loop of _layout_simple
SimpleMember(rect, horizontal, offset, extent) ==
    IF horizontal THEN Rect(QAdd(rect.x, offset), rect.y, extent, rect.height)
    ELSE Rect(rect.x, QAdd(rect.y, offset), rect.width, extent)
RECURSIVE SimpleLoop(_, _, _, _, _, _)
SimplePlace(items, i, offset, rect, horizontal, total, extent) ==
    <<[child |-> items[i].child, rect |-> SimpleMember(rect, horizontal, offset, extent)]>>
    \o SimpleLoop(items, i + 1, QAdd(offset, extent), rect, horizontal, total)
SimpleLoop(items, i, offset, rect, horizontal, total) ==
    IF i > Len(items) THEN <<>>
    ELSE SimplePlace(items, i, offset, rect, horizontal, total,
                     QMul(IF horizontal THEN rect.width ELSE rect.height,
                          QDiv(items[i].area, total)))

\* total = sum(area for _, area in items) or 1
OrOne(x) == IF x = Zero THEN One ELSE x

\* _layout_simple: what it appends to acc
LayoutSimple(items, rect) ==
    IF items = <<>> THEN <<>>
    ELSE SimpleLoop(items, 1, Zero, rect, Horizontal(rect),
                    OrOne(QSum(Areas(items), 1, Len(items))))

\* sorted(children, key=lambda c: c.size, reverse=True), as positions in
\* children: the largest size first, equal sizes in their order in children
MaxOf(sizes) == CHOOSE m \in sizes : \A s \in sizes : s <= m
RECURSIVE BySizeDescending(_, _, _)
LargestFirst(children, indexes, sizes, m) ==
    SelectSeq(indexes, LAMBDA i : children[i].size = m)
    \o BySizeDescending(children, indexes, sizes \ {m})
BySizeDescending(children, indexes, sizes) ==
    IF sizes = {} THEN <<>> ELSE LargestFirst(children, indexes, sizes, MaxOf(sizes))
SortedChildren(children) ==
    BySizeDescending(children, [i \in 1 .. Len(children) |-> i],
                     {children[i].size : i \in 1 .. Len(children)})

\* max(child.size, 1)
Weight(child) == Max(child.size, 1)

\* lines 97-99: total_size, total_area and the (child, area) pairs
AreaOf(child, total_size, total_area) ==
    QMul(QFrac(Weight(child), total_size), total_area)
AreasOf(children, order, total_size, total_area) ==
    [i \in 1 .. Len(order) |->
        [child |-> order[i], area |-> AreaOf(children[order[i]], total_size, total_area)]]
IntOrOne(i) == IF i = 0 THEN 1 ELSE i
ChildAreas(children, bounds) ==
    AreasOf(children, SortedChildren(children),
            IntOrOne(SumInt([i \in 1 .. Len(children) |-> Weight(children[i])], 1,
                            Len(children))),
            OrOne(QMul(bounds.width, bounds.height)))

(***************************************************************************)
(* slice_and_dice as steps.  lay.calls holds the calls of slice_and_dice   *)
(* still to be made, the next one first; lay.sq holds the running call of  *)
(* _squarify, if any.  Every _squarify call is one step: the recursion is  *)
(* up to 2000 calls deep, and the interpreter's recursion limit decides    *)
(* whether it gets that far.  lay.tree is the tree object the call works   *)
(* on, lay.given the tree as the caller passed it to the first call, and   *)
(* lay.first the list the first call returned once a second call of the    *)
(* same arguments has begun.                                               *)
(***************************************************************************)
\* _squarify(areas, [], bounds, result, depth_limit=2000)
DepthLimit == 2000

\* sys.getrecursionlimit(): CPython's default, and a limit raised by the host
DefaultRecursionLimit == 1000
RaisedRecursionLimit == 3000
RecursionLimits == {DefaultRecursionLimit, RaisedRecursionLimit}

\* frames already on the interpreter's stack when slice_and_dice is called
CallerFrames == 2

None == <<>>
Some(v) == <<v>>

LayIdle ==
    [status |-> "idle", tree |-> NoNode, bounds |-> Rect(Zero, Zero, Zero, Zero),
     max_depth |-> None, recursion_limit |-> 0, layouts |-> <<>>, calls |-> <<>>,
     sq |-> None, exc |-> "", given |-> NoNode, first |-> None]

\* the frame of the first _squarify call made for a node at tree depth
\* `depth`: below it are the caller's frames, one frame of slice_and_dice
\* per level, and _squarify_children
FirstFrame(depth) == CallerFrames + (depth + 1) + 1 + 1

\* line 82: not node.children or node.size <= 0 or
\* (max_depth is not None and depth >= max_depth)
StopsAt(node, depth, max_depth) ==
    \/ node.children = <<>>
    \/ node.size <= 0
    \/ (max_depth # None /\ depth >= max_depth[1])

\* the children list of the node at `pos` sorted in place, largest last, as
\* children.sort(key=lambda c: c.size) would leave it
RECURSIVE InputSortedInPlace(_, _)
InputSortedInPlace(tree, pos) ==
    IF pos = <<>>
    THEN [tree EXCEPT !.children =
             [i \in 1 .. Len(tree.children) |->
                 tree.children[SortedChildren(tree.children)[Len(tree.children) + 1 - i]]]]
    ELSE [tree EXCEPT !.children[pos[1]] = InputSortedInPlace(@, Tail(pos))]

\* line 96: sorted(children, ...) builds a new list; the tree the caller
\* passed, the children list of the node at `pos` included, stays as it was
InputAfterSorted(tree, pos) == tree

\* lines 85 and 102: the first call of _squarify for the children of `call`
Squarifying(node, call) ==
    [node |-> call.node, depth |-> call.depth,
     items |-> ChildAreas(node.children, call.rect), row |-> <<>>, rect |-> call.rect,
     acc |-> <<>>, depth_limit |-> DepthLimit, frame |-> FirstFrame(call.depth)]

\* lines 86-87: the calls of slice_and_dice for the laid out children
ChildCalls(a, acc) ==
    [i \in 1 .. Len(acc) |->
        [node |-> Append(a.node, acc[i].child), rect |-> acc[i].rect,
         depth |-> a.depth + 1, parent |-> Some(a.node)]]

Status(calls, sq) == IF calls = <<>> /\ sq = None THEN "returned" ELSE "running"

\* line 124: not row or _worst_ratio(new_row, rect) <= _worst_ratio(row, rect)
Extends(a) ==
    IF a.row = <<>> THEN TRUE
    ELSE QLE(WorstRatio(Append(a.row, a.items[1]), a.rect), WorstRatio(a.row, a.rect))

\* The frames a _squarify call needs above its own (CPython 3.11):
\* _worst_ratio and its list comprehension are 2, _layout_row or
\* _layout_simple with the Rect it constructs are 3, the next _squarify is 1.
FramesNeeded(a) ==
    IF a.depth_limit <= 0 THEN (IF a.items = <<>> THEN 1 ELSE 3)
    ELSE IF a.items = <<>> THEN (IF a.row = <<>> THEN 0 ELSE 3)
    ELSE IF a.row = <<>> THEN 1
    ELSE IF a.frame + 2 > lay.recursion_limit THEN 2
    ELSE IF Extends(a) THEN 2
    ELSE 3

Overflows(a) == a.frame + FramesNeeded(a) > lay.recursion_limit

\* the children's entries put after everything still to be emitted
ReturnedBreadthFirst(a, acc) ==
    [lay EXCEPT !.calls = lay.calls \o ChildCalls(a, acc),
                !.sq = None,
                !.status = Status(lay.calls \o ChildCalls(a, acc), None)]

\* _squarify returns: slice_and_dice goes on with the children laid out
Returned(a, acc) ==
    [lay EXCEPT !.calls = ChildCalls(a, acc) \o lay.calls,
                !.sq = None,
                !.status = Status(ChildCalls(a, acc) \o lay.calls, None)]

\* the recursive call _squarify(items, row, rect, acc, depth_limit - 1)
Recursing(a, items, row, rect, acc) ==
    [lay EXCEPT !.sq = Some([a EXCEPT !.items = items, !.row = row, !.rect = rect,
                                       !.acc = acc, !.depth_limit = a.depth_limit - 1,
                                       !.frame = a.frame + 1])]

Closing(a, laid) == Recursing(a, a.items, <<>>, laid.rect, a.acc \o laid.placed)

Started(request) ==
    [LayIdle EXCEPT !.status = "running", !.tree = request.tree,
                    !.bounds = request.bounds, !.max_depth = request.max_depth,
                    !.recursion_limit = request.recursion_limit,
                    !.given = request.tree,
                    !.calls = <<[node |-> <<>>, rect |-> request.bounds, depth |-> 0,
                                 parent |-> None]>>]

(***************************************************************************)
(* filter_layout.  A string is the sequence of its characters; a layout    *)
(* entry names its node by the node's position in the tree, which stands   *)
(* for the DiskNode object.                                                *)
(***************************************************************************)
\* the characters of an entry name; every modelled name but "proc" is one
\* character (the numbered siblings hold no character of a modelled query)
NameChars(name) == IF name = "proc" THEN <<"p", "r", "o", "c">> ELSE <<name>>

\* str(path)
RECURSIVE Str(_)
Str(path) ==
    IF path = <<>> THEN <<>>
    ELSE Str(Front(path)) \o <<"/">> \o NameChars(path[Len(path)])

\* str.lower()
Lower(chars) == [i \in 1 .. Len(chars) |-> LowerName(chars[i])]

\* needle in hay
Contains(needle, hay) ==
    \E i \in 0 .. Len(hay) - Len(needle) : SubSeq(hay, i + 1, i + Len(needle)) = needle

\* DiskNode is a dataclass with eq and without frozen: its __hash__ is None
DiskNodeHash == None

\* line 214 or 215 raises TypeError: a DiskNode is made a dict key or a set
\* member
HashRaises(layouts) == layouts # <<>> /\ DiskNodeHash = None

\* line 214: parent_map; a later entry of a node replaces an earlier one
ParentMap(layouts) ==
    [n \in {layouts[i].node : i \in 1 .. Len(layouts)} |->
        layouts[CHOOSE i \in 1 .. Len(layouts) :
                    /\ layouts[i].node = n
                    /\ \A j \in i + 1 .. Len(layouts) : layouts[j].node # n].parent]

\* parent_map.get(node)
ParentGet(parent_map, node) ==
    IF node \in DOMAIN parent_map THEN parent_map[node] ELSE None

\* line 215: normalized in str(layout.node.path).lower()
Matches(tree, node, normalized) ==
    Contains(normalized, Lower(Str(NodeOf(tree, node).path)))

MatchingNodes(tree, layouts, normalized) ==
    {layouts[i].node : i \in {j \in 1 .. Len(layouts) :
                                 Matches(tree, layouts[j].node, normalized)}}

\* the orders in which `for node in list(matching_nodes)` may visit a set
IterationOrders(nodes) ==
    {order \in [1 .. Cardinality(nodes) -> nodes] :
        \A i, j \in 1 .. Cardinality(nodes) : order[i] = order[j] => i = j}

\* lines 220-224: while parent: ... parent = parent_map.get(parent)
RECURSIVE WalkUp(_, _, _)
WalkUp(parent_map, matching_nodes, parent) ==
    IF parent = None THEN matching_nodes
    ELSE IF parent[1] \in matching_nodes THEN matching_nodes
    ELSE WalkUp(parent_map, matching_nodes \cup {parent[1]},
                ParentGet(parent_map, parent[1]))

\* lines 218-224: for node in list(matching_nodes)
RECURSIVE WithAncestors(_, _, _)
WithAncestors(parent_map, matching_nodes, order) ==
    IF order = <<>> THEN matching_nodes
    ELSE WithAncestors(parent_map,
                       WalkUp(parent_map, matching_nodes,
                              ParentGet(parent_map, order[1])),
                       Tail(order))

\* lines 230-234: one pass of `for layout in layouts`, from entry i on
RECURSIVE DescendantPass(_, _, _, _)
DescendantPass(layouts, parent_map, matching_nodes, i) ==
    IF i > Len(layouts) THEN matching_nodes
    ELSE IF /\ ParentGet(parent_map, layouts[i].node) # None
            /\ ParentGet(parent_map, layouts[i].node)[1] \in matching_nodes
            /\ layouts[i].node \notin matching_nodes
         THEN DescendantPass(layouts, parent_map,
                             matching_nodes \cup {layouts[i].node}, i + 1)
         ELSE DescendantPass(layouts, parent_map, matching_nodes, i + 1)

\* lines 227-234: while added
RECURSIVE WithDescendants(_, _, _)
WithDescendants(layouts, parent_map, matching_nodes) ==
    IF DescendantPass(layouts, parent_map, matching_nodes, 1) = matching_nodes
    THEN matching_nodes
    ELSE WithDescendants(layouts, parent_map,
                         DescendantPass(layouts, parent_map, matching_nodes, 1))

\* lines 213-234: the set matching_nodes when the last loop begins
Closure(tree, layouts, normalized, order) ==
    WithDescendants(layouts, ParentMap(layouts),
                    WithAncestors(ParentMap(layouts),
                                  MatchingNodes(tree, layouts, normalized), order))

FltIdle == [status |-> "idle", layouts |-> <<>>, query |-> <<>>, result |-> <<>>,
            exc |-> ""]

\* the entries the generator has yielded when it is exhausted
Yielded(layouts, query, result) ==
    [status |-> "returned", layouts |-> layouts, query |-> query, result |-> result,
     exc |-> ""]

\* an empty query yielding nothing
YieldNothing(layouts) == <<>>

\* the entries yielded last first
YieldFromReversed(layouts) == [i \in 1 .. Len(layouts) |-> layouts[Len(layouts) + 1 - i]]

\* lines 209-211: yield from layouts
YieldFrom(layouts) == layouts

\* lines 235-237: the entries whose node is in matching_nodes, in input order
YieldMatching(layouts, matching_nodes) ==
    SelectSeq(layouts, LAMBDA layout : layout.node \in matching_nodes)

\* list(filter_layout(layouts, query)): the generator run to its end
filter_layout(tree, layouts, query, order) ==
    IF query = <<>> THEN Yielded(layouts, query, YieldFrom(layouts))
    ELSE IF HashRaises(layouts)
    THEN [status |-> "raised", layouts |-> layouts, query |-> query, result |-> <<>>,
          exc |-> "TypeError"]
    ELSE Yielded(layouts, query,
                 YieldMatching(layouts, Closure(tree, layouts, Lower(query), order)))

\* the orders the ancestor loop may take in a call that reaches it
OrdersOf(tree, layouts, query) ==
    IF query = <<>> \/ HashRaises(layouts) THEN {<<>>}
    ELSE IterationOrders(MatchingNodes(tree, layouts, Lower(query)))

(***************************************************************************)
(* The application's scan queue.  A request is the number it was created   *)
(* under.  app.main is the position of the interface thread, which runs    *)
(* schedule_scan, the handoffs posted with root.after and the monitor      *)
(* tick one at a time; app.worker is the request the worker thread is      *)
(* scanning, 0 while it waits in scan_queue.get().  Every operation of     *)
(* queue.Queue is atomic, and the two threads interleave between them.     *)
(* app.in_queue_at_call, app.superseded, app.drained, app.started and      *)
(* app.at_return record what happened: the requests queued when the        *)
(* running schedule_scan began to drain, those of all such calls, the      *)
(* requests the drain removed, the requests the worker took, and the       *)
(* queue as it was when the last schedule_scan returned.  A tree is named   *)
(* by the request whose scan built it: app.current_node, app.selection and *)
(* app.snapshot_hash hold the request whose tree is shown, holds the       *)
(* selected node and was hashed, 0 for none.  app.dialogs holds the        *)
(* requests whose _apply_scan waits in its permission warning, the         *)
(* innermost last: a modal dialog keeps the user from the window while the *)
(* event loop inside it goes on running posted callbacks and timers.       *)
(* app.dequeued, app.posted and app.received record the requests in the    *)
(* order the worker took them, the handoffs in the order the worker posted *)
(* them, and in the order the interface thread ran them;                   *)
(* app.in_progress_at_call holds the requests the worker was scanning when *)
(* schedule_scan was called.                                               *)
(***************************************************************************)
\* the requests put in a run, and those of them put by schedule_scan
MaxRequests == 5
MaxCalls == 2
MAX_SCAN_QUEUE_SIZE == 2

AppIdle ==
    [queue |-> <<>>, issued |-> 0, origin |-> <<>>, worker |-> 0, events |-> <<>>,
     current_node |-> 0, status |-> "hint", monitor_job |-> FALSE, main |-> "idle",
     pending |-> 0, in_queue_at_call |-> {}, superseded |-> {}, drained |-> {},
     started |-> {}, at_return |-> None, selection |-> 0, snapshot_hash |-> 0,
     dialogs |-> <<>>, dequeued |-> <<>>, posted |-> <<>>, received |-> <<>>,
     in_progress_at_call |-> {}]

Elements(queue) == {queue[i] : i \in 1 .. Len(queue)}

\* get_nowait raises queue.Empty
Empty(queue) == queue = <<>>

\* a handoff that is never posted
PostedNowhere(events, event) == events

\* a handoff put before those already waiting
PostedInFront(events, event) == <<event>> \o events

\* root.after(0, ...): the callback runs after those posted before it
Posted(events, event) == Append(events, event)

\* the worker thread ending after a failed scan
ThreadEnds(request) == 0 - 1

\* line 529, continue: the worker is back at scan_queue.get()
AfterFailure(request) == 0

\* the tick putting a request whatever the queue holds
QueueFullNever(queue) == FALSE

\* line 904: self.scan_queue.qsize() > MAX_SCAN_QUEUE_SIZE
QueueFull(queue) == Len(queue) > MAX_SCAN_QUEUE_SIZE

\* the requests put by schedule_scan so far
Calls == Cardinality({i \in 1 .. Len(app.origin) : app.origin[i] = "user"})

\* scan_queue.put(pending) of a request just created
Put(origin) ==
    [app EXCEPT !.queue = Append(@, app.issued + 1),
                !.issued = @ + 1,
                !.origin = Append(@, origin)]

(***************************************************************************)
(* The scanner as a state machine: a filesystem, and one scan of it.       *)
(***************************************************************************)
Idle == [status |-> "idle", root |-> <<>>, max_depth |-> 0, follow_symlinks |-> FALSE,
         exc |-> "", node |-> NoNode, stats |-> ScanStats]

Init ==
    /\ fs \in FileSystems
    /\ scan = Idle
    /\ lay = LayIdle
    /\ flt = FltIdle
    /\ app = AppIdle

\* one call, with its arguments and what it returned or raised
Called(root, max_depth, follow_symlinks, r) ==
    [status |-> IF r.exc = "" THEN "returned" ELSE "raised",
     root |-> root, max_depth |-> max_depth, follow_symlinks |-> follow_symlinks,
     exc |-> r.exc, node |-> r.node, stats |-> r.stats]

ScanDirectory ==
    /\ scan.status = "idle"
    /\ \E root \in Roots, max_depth \in 0 .. MaxDepthArg, follow_symlinks \in BOOLEAN :
          scan' = Called(root, max_depth, follow_symlinks,
                         scan_directory(fs, root, max_depth, follow_symlinks))
    /\ UNCHANGED <<fs, lay, flt, app>>

Next == ScanDirectory

Spec == Init /\ [][Next]_vars

(***************************************************************************)
(* What is laid out: the trees scan_directory builds from the filesystems  *)
(* above, in small viewports, and one directory of many equal files.       *)
(***************************************************************************)
MaxSide == 2
ManySiblings == 1002

ScannedTrees ==
    {scan_directory(f, R, MaxDepthArg, FALSE).node :
        f \in {g \in FileSystems : scan_directory(g, R, MaxDepthArg, FALSE).exc = ""}}

Viewports == {Rect(Zero, Zero, QInt(w), QInt(h)) : w, h \in 0 .. MaxSide}

MaxDepths == {None} \cup {Some(d) : d \in 0 .. MaxDepthArg}

ManySiblingsTree ==
    DiskNode(R, ManySiblings, TRUE, 1,
             [i \in 1 .. ManySiblings |->
                 DiskNode(Append(R, ToString(i)), 1, FALSE, 2, <<>>)])

\* as wide as half the siblings and 1 high: the first two siblings share a
\* row, every later one is a row of its own
WideViewport == Rect(Zero, Zero, QInt(ManySiblings \div 2), One)

Request(tree, bounds, max_depth, recursion_limit) ==
    [tree |-> tree, bounds |-> bounds, max_depth |-> max_depth,
     recursion_limit |-> recursion_limit]

\* the search texts: none, a name, a name in the other case, the end of a
\* path, and a text no path holds
Queries == {<<>>, <<"a">>, <<"b">>, <<"/", "c">>, <<"z">>}

LayoutRequests ==
    {Request(t, b, m, DefaultRecursionLimit) :
        t \in ScannedTrees, b \in Viewports, m \in MaxDepths}
    \cup {Request(ManySiblingsTree, WideViewport, None, l) : l \in RecursionLimits}

(***************************************************************************)
(* The layout as a state machine: one call of slice_and_dice.              *)
(***************************************************************************)
InitLayout ==
    /\ fs = MkFs(Dir("rwx"), Absent, Absent, Absent, Absent, Absent)
    /\ scan = Idle
    /\ lay = LayIdle
    /\ flt = FltIdle
    /\ app = AppIdle

\* slice_and_dice(node, bounds, max_depth=...) is called
Layout ==
    /\ lay.status = "idle"
    /\ \E request \in LayoutRequests : lay' = Started(request)
    /\ UNCHANGED <<fs, scan, flt, app>>

Entered(call) ==
    Append(lay.layouts, NodeRect(call.node, call.rect, call.depth, call.parent))

\* lines 81-83: a call of slice_and_dice that returns its own entry only
SliceAndDiceLeaf ==
    /\ lay.status = "running" /\ lay.sq = None /\ lay.calls # <<>>
    /\ StopsAt(NodeOf(lay.tree, lay.calls[1].node), lay.calls[1].depth, lay.max_depth)
    /\ lay' = [lay EXCEPT !.layouts = Entered(lay.calls[1]),
                          !.calls = Tail(lay.calls),
                          !.status = Status(Tail(lay.calls), None)]
    /\ UNCHANGED <<fs, scan, flt, app>>

\* lines 81-85: a call of slice_and_dice that lays out the node's children
SliceAndDiceChildren ==
    /\ lay.status = "running" /\ lay.sq = None /\ lay.calls # <<>>
    /\ ~StopsAt(NodeOf(lay.tree, lay.calls[1].node), lay.calls[1].depth, lay.max_depth)
    /\ lay' = [lay EXCEPT !.layouts = Entered(lay.calls[1]),
                          !.calls = Tail(lay.calls),
                          !.tree = InputAfterSorted(lay.tree, lay.calls[1].node),
                          !.sq = Some(Squarifying(NodeOf(lay.tree, lay.calls[1].node),
                                                  lay.calls[1]))]
    /\ UNCHANGED <<fs, scan, flt, app>>

\* lines 113-116: the cap is used up
SquarifyFallback ==
    /\ lay.status = "running" /\ lay.sq # None
    /\ ~Overflows(lay.sq[1])
    /\ lay.sq[1].depth_limit <= 0
    /\ lay' = Returned(lay.sq[1],
                       lay.sq[1].acc \o LayoutSimple(lay.sq[1].items, lay.sq[1].rect))
    /\ UNCHANGED <<fs, scan, flt, app>>

\* lines 117-120: no items left
SquarifyLast ==
    /\ lay.status = "running" /\ lay.sq # None
    /\ ~Overflows(lay.sq[1])
    /\ lay.sq[1].depth_limit > 0
    /\ lay.sq[1].items = <<>>
    /\ lay' = Returned(lay.sq[1],
                       lay.sq[1].acc \o LayoutRow(lay.sq[1].row, lay.sq[1].rect).placed)
    /\ UNCHANGED <<fs, scan, flt, app>>

\* lines 122-125: the first item joins the row
SquarifyExtend ==
    /\ lay.status = "running" /\ lay.sq # None
    /\ ~Overflows(lay.sq[1])
    /\ lay.sq[1].depth_limit > 0
    /\ lay.sq[1].items # <<>>
    /\ Extends(lay.sq[1])
    /\ lay' = Recursing(lay.sq[1], Tail(lay.sq[1].items),
                        Append(lay.sq[1].row, lay.sq[1].items[1]), lay.sq[1].rect,
                        lay.sq[1].acc)
    /\ UNCHANGED <<fs, scan, flt, app>>

\* lines 126-128: the row is laid out and a new one begun
SquarifyClose ==
    /\ lay.status = "running" /\ lay.sq # None
    /\ ~Overflows(lay.sq[1])
    /\ lay.sq[1].depth_limit > 0
    /\ lay.sq[1].items # <<>>
    /\ ~Extends(lay.sq[1])
    /\ lay' = Closing(lay.sq[1], LayoutRow(lay.sq[1].row, lay.sq[1].rect))
    /\ UNCHANGED <<fs, scan, flt, app>>

\* the interpreter's recursion limit is reached: RecursionError leaves
\* slice_and_dice, which has no handler
SquarifyRecursionError ==
    /\ lay.status = "running" /\ lay.sq # None
    /\ Overflows(lay.sq[1])
    /\ lay' = [lay EXCEPT !.status = "raised", !.exc = "RecursionError"]
    /\ UNCHANGED <<fs, scan, flt, app>>

\* slice_and_dice is called once more with the arguments of the call that
\* returned: the same tree object, bounds and max_depth (redraw, app.py 615)
LayoutAgain ==
    /\ lay.status = "returned" /\ lay.first = None
    /\ lay' = [Started(Request(lay.tree, lay.bounds, lay.max_depth, lay.recursion_limit))
                  EXCEPT !.given = lay.given, !.first = Some(lay.layouts)]
    /\ flt' = FltIdle
    /\ UNCHANGED <<fs, scan, app>>

\* filter_layout is run to its end on a list slice_and_dice returned, or on
\* the empty list
FilterLayout ==
    /\ lay.status = "returned" /\ flt.status = "idle"
    /\ \E layouts \in {lay.layouts, <<>>}, query \in Queries :
          \E order \in OrdersOf(lay.tree, layouts, query) :
              flt' = filter_layout(lay.tree, layouts, query, order)
    /\ UNCHANGED <<fs, scan, lay, app>>

NextLayout ==
    \/ Layout
    \/ LayoutAgain
    \/ FilterLayout
    \/ SliceAndDiceLeaf
    \/ SliceAndDiceChildren
    \/ SquarifyFallback
    \/ SquarifyLast
    \/ SquarifyExtend
    \/ SquarifyClose
    \/ SquarifyRecursionError

SpecLayout == InitLayout /\ [][NextLayout]_vars

(***************************************************************************)
(* The application as a state machine: the interface thread and the scan   *)
(* worker.                                                                 *)
(***************************************************************************)
InitApp ==
    /\ fs = MkFs(Dir("rwx"), Absent, Absent, Absent, Absent, Absent)
    /\ scan = Idle
    /\ lay = LayIdle
    /\ flt = FltIdle
    /\ app = AppIdle

\* lines 483-512: the path does not exist or cannot be read; with an empty
\* path the call returns and changes nothing
ScheduleScanRejected ==
    /\ app.main = "idle" /\ app.dialogs = <<>>
    /\ app' = [app EXCEPT !.status = "invalid"]
    /\ UNCHANGED <<fs, scan, lay, flt>>

\* lines 481-514: the path checks pass and _clear_pending_scans is called
ScheduleScan ==
    /\ app.main = "idle" /\ app.dialogs = <<>>
    /\ app.issued < MaxRequests /\ Calls < MaxCalls
    /\ app' = [app EXCEPT !.main = "clearing",
                          !.in_queue_at_call = Elements(app.queue),
                          !.superseded = @ \cup Elements(app.queue),
                          !.in_progress_at_call = @ \cup (IF app.worker > 0
                                                           THEN {app.worker}
                                                           ELSE {}),
                          !.at_return = None]
    /\ UNCHANGED <<fs, scan, lay, flt>>

\* lines 913-915: get_nowait takes a request off the queue
ClearPendingScans ==
    /\ app.main = "clearing"
    /\ ~Empty(app.queue)
    /\ app' = [app EXCEPT !.queue = Tail(@), !.drained = @ \cup {Head(app.queue)}]
    /\ UNCHANGED <<fs, scan, lay, flt>>

\* lines 916-917 and 515-516: queue.Empty ends the drain, and the new
\* request is put
Enqueue ==
    /\ app.main = "clearing"
    /\ Empty(app.queue)
    /\ app' = [Put("user") EXCEPT !.main = "returning", !.pending = app.issued + 1]
    /\ UNCHANGED <<fs, scan, lay, flt>>

\* line 517: the status is set and schedule_scan returns
ScheduleScanReturn ==
    /\ app.main = "returning"
    /\ app' = [app EXCEPT !.main = "idle", !.status = "scanning",
                          !.at_return = Some(app.queue)]
    /\ UNCHANGED <<fs, scan, lay, flt>>

\* the worker as it holds a request it has just taken
ShownWhileScanned(request) ==
    [app EXCEPT !.worker = request, !.queue = Tail(@),
                !.started = @ \cup {request},
                !.dequeued = Append(@, request),
                !.current_node = request]

\* line 522: pending = self.scan_queue.get()
Dequeued(request) ==
    [app EXCEPT !.worker = request, !.queue = Tail(@),
                !.started = @ \cup {request},
                !.dequeued = Append(@, request)]

\* a second thread taking requests while the first one scans
WaitingOrNot(worker) == worker >= 0

\* the one worker thread is blocked in scan_queue.get()
Waiting(worker) == worker = 0

ScanWorkerGet ==
    /\ Waiting(app.worker)
    /\ app.queue # <<>>
    /\ app' = Dequeued(Head(app.queue))
    /\ UNCHANGED <<fs, scan, lay, flt>>

\* lines 526 and 530: the scan returns and _apply_scan is posted
ScanWorkerScanned ==
    /\ app.worker > 0
    /\ app' = [app EXCEPT
                  !.worker = 0,
                  !.events = Posted(@, [kind |-> "apply", request |-> app.worker]),
                  !.posted = Append(@, [kind |-> "apply", request |-> app.worker])]
    /\ UNCHANGED <<fs, scan, lay, flt>>

\* lines 527-529: the scan raises, the failure status is posted and the
\* loop goes on
ScanWorkerFailed ==
    /\ app.worker > 0
    /\ app' = [app EXCEPT
                  !.worker = AfterFailure(app.worker),
                  !.events = Posted(@, [kind |-> "failed", request |-> app.worker]),
                  !.posted = Append(@, [kind |-> "failed", request |-> app.worker])]
    /\ UNCHANGED <<fs, scan, lay, flt>>

\* lines 534-550: the tree is taken over and the status set
Shown(event) ==
    [app EXCEPT !.events = Tail(@),
                !.received = Append(@, event),
                !.current_node = event.request,
                !.selection = 0,
                !.status = "scanned"]

\* lines 556-559: the snapshot is hashed, redraw runs and, unless it raises,
\* the monitor is armed
Redrawn(shown, request, redraw_raises) ==
    [shown EXCEPT !.snapshot_hash = request,
                  !.monitor_job = IF redraw_raises THEN @ ELSE TRUE]

\* lines 532-559: _apply_scan; with three or more denied folders it stops
\* in the warning dialog of line 553
ApplyScan ==
    /\ app.main = "idle"
    /\ app.events # <<>>
    /\ Head(app.events).kind = "apply"
    /\ \E warned \in BOOLEAN, redraw_raises \in BOOLEAN :
          app' = IF warned
                 THEN [Shown(Head(app.events)) EXCEPT
                          !.dialogs = Append(@, Head(app.events).request)]
                 ELSE Redrawn(Shown(Head(app.events)), Head(app.events).request,
                              redraw_raises)
    /\ UNCHANGED <<fs, scan, lay, flt>>

\* lines 553-559: the warning is closed and _apply_scan goes on
ApplyScanResume ==
    /\ app.main = "idle"
    /\ app.dialogs # <<>>
    /\ \E redraw_raises \in BOOLEAN :
          app' = Redrawn([app EXCEPT !.dialogs = Front(@)],
                         app.dialogs[Len(app.dialogs)], redraw_raises)
    /\ UNCHANGED <<fs, scan, lay, flt>>

\* line 528: the posted lambda sets the status
ScanFailedStatus ==
    /\ app.main = "idle"
    /\ app.events # <<>>
    /\ Head(app.events).kind = "failed"
    /\ app' = [app EXCEPT !.events = Tail(@),
                          !.received = Append(@, Head(app.events)),
                          !.status = "failed"]
    /\ UNCHANGED <<fs, scan, lay, flt>>

\* lines 682-694: a click selects a node of the tree shown
OnCanvasClick ==
    /\ app.main = "idle" /\ app.dialogs = <<>>
    /\ app.current_node # 0
    /\ app' = [app EXCEPT !.selection = app.current_node]
    /\ UNCHANGED <<fs, scan, lay, flt>>

\* lines 896-909: the monitor tick; path_given is whether the path field
\* holds text
MonitorDirectory ==
    /\ app.main = "idle"
    /\ app.monitor_job
    /\ \E path_given \in BOOLEAN :
          IF app.current_node = 0 \/ ~path_given
          THEN app' = [app EXCEPT !.monitor_job = FALSE]
          ELSE IF QueueFull(app.queue)
          THEN app' = [app EXCEPT !.monitor_job = TRUE]
          ELSE /\ app.issued < MaxRequests
               /\ app' = [Put("monitor") EXCEPT !.monitor_job = TRUE]
    /\ UNCHANGED <<fs, scan, lay, flt>>

NextApp ==
    \/ ScheduleScanRejected
    \/ ScheduleScan
    \/ ClearPendingScans
    \/ Enqueue
    \/ ScheduleScanReturn
    \/ ScanWorkerGet
    \/ ScanWorkerScanned
    \/ ScanWorkerFailed
    \/ ApplyScan
    \/ ApplyScanResume
    \/ ScanFailedStatus
    \/ OnCanvasClick
    \/ MonitorDirectory

SpecApp == InitApp /\ [][NextApp]_vars

\* Both threads keep running: the worker's scan ends and its get() returns
\* when a request is queued; the interface thread finishes schedule_scan and
\* its event loop runs the callbacks posted to it.
SpecAppLive ==
    /\ SpecApp
    /\ WF_vars(ScanWorkerGet)
    /\ WF_vars(ScanWorkerScanned \/ ScanWorkerFailed)
    /\ WF_vars(ClearPendingScans \/ Enqueue \/ ScheduleScanReturn)
    /\ WF_vars(ApplyScan \/ ScanFailedStatus)


(***************************************************************************)
(* Reading a tree.                                                         *)
(***************************************************************************)
RECURSIVE Descend(_, _)
\* every node of the tree under `node`, with its depth
Descend(node, depth) ==
    {[n |-> node, d |-> depth]}
        \cup UNION {Descend(node.children[i], depth + 1) : i \in 1 .. Len(node.children)}

RECURSIVE SumSizes(_)
SumSizes(children) ==
    IF children = <<>> THEN 0 ELSE children[1].size + SumSizes(Tail(children))

ScannedNodes == IF scan.status = "returned" THEN Descend(scan.node, 0) ELSE {}

IsPrefix(p, q) == Len(p) <= Len(q) /\ SubSeq(q, 1, Len(p)) = p

\* what lstat and stat say of a path in the filesystem
IsLinkEntry(p) == LStat(fs, p).err = "" /\ fs[LStat(fs, p).path].kind = "link"
StatKind(p) == IF Stat(fs, p).err = "" THEN fs[Stat(fs, p).path].kind ELSE "none"
RawStatSize(p) == IF Stat(fs, p).err = "" THEN fs[Stat(fs, p).path].size ELSE 0

(***************************************************************************)
(* C1: in every returned tree, a directory's size is at least the sum of   *)
(* its direct children's sizes and at least its own raw stat size.         *)
(***************************************************************************)
C1_DirectorySizeBounds ==
    \A x \in ScannedNodes :
        x.n.is_dir =>
            /\ x.n.size >= SumSizes(x.n.children)
            /\ x.n.size >= RawStatSize(x.n.path)

\* a directory whose children sum to more than its stat size, and an
\* expanded one whose stat size exceeds what its children sum to
C1_Witness ==
    /\ \E x \in ScannedNodes :
          x.n.is_dir /\ Len(x.n.children) >= 2 /\ SumSizes(x.n.children) > RawStatSize(x.n.path)
    /\ \E x \in ScannedNodes :
          /\ x.n.is_dir /\ x.d < scan.max_depth
          /\ SumSizes(x.n.children) < RawStatSize(x.n.path)
          /\ x.n.size = RawStatSize(x.n.path)

(***************************************************************************)
(* C2: no failure on a non-root entry propagates out of scan_directory:    *)
(* a scan raises only when the root itself cannot be resolved, type-tested *)
(* or fully accessed; otherwise it returns a (tree, stats) pair.           *)
(***************************************************************************)
RootFails(root) ==
    \/ Resolve(fs, root).exc # ""
    \/ IsSymlink(fs, Resolve(fs, root).val).exc # ""
    \/ IsDir(fs, Resolve(fs, root).val).exc # ""
    \/ (Stat(fs, root).err = "" /\ fs[Stat(fs, root).path].perm # "rwx")

C2_EntryFailuresNeverPropagate ==
    scan.status = "raised" => RootFails(scan.root)

(***************************************************************************)
(* C3: a root that is missing, not a directory or inaccessible is          *)
(* reported as an error, and no tree is produced.                          *)
(***************************************************************************)
BadRoot(root) ==
    \/ Stat(fs, root).err # ""
    \/ StatKind(root) # "dir"
    \/ Scandir(fs, root).exc # ""

C3_BadRootIsAnError ==
    (scan.status # "idle" /\ BadRoot(scan.root)) => scan.status = "raised"

(***************************************************************************)
(* C4: in every returned tree no node lies deeper than max_depth, and a    *)
(* directory at depth = max_depth has no children and its own raw stat     *)
(* size, with follow_symlinks true or false, symlink cycles included.      *)
(***************************************************************************)
C4_DepthCap ==
    \A x \in ScannedNodes :
        /\ x.d <= scan.max_depth
        /\ (x.n.is_dir /\ x.d = scan.max_depth) =>
              (x.n.children = <<>> /\ x.n.size = RawStatSize(x.n.path))

\* a non-empty directory at the cap, reached through a symlink that leads
\* back to an ancestor
C4_Witness ==
    /\ scan.status = "returned" /\ scan.follow_symlinks
    /\ \E x \in ScannedNodes :
          /\ x.d = scan.max_depth /\ x.d >= 2 /\ x.n.is_dir
          /\ IsLinkEntry(x.n.path) /\ IsPrefix(Stat(fs, x.n.path).path, x.n.path)
          /\ Scandir(fs, x.n.path).val # <<>>
          /\ x.n.children = <<>>

(***************************************************************************)
(* C5 as claimed: with follow_symlinks false every symlink encountered,    *)
(* the root position included, gives a non-directory leaf without children *)
(* sized by the stat of the resolved target, and nothing below it is       *)
(* listed.                                                                 *)
(***************************************************************************)
LeafOfLink(n) ==
    /\ ~n.is_dir
    /\ n.children = <<>>
    /\ n.size = SafeStat(fs, Resolve(fs, n.path).val)[1]

NothingBelow(p) == \A y \in ScannedNodes : IsPrefix(p, y.n.path) => y.n.path = p

\* every entry of a listed directory that is a symlink has a node
LinksBelowRootHaveNodes ==
    \A x \in ScannedNodes :
        (x.n.is_dir /\ x.d < scan.max_depth /\ ListEntries(fs, x.n.path).exc = "") =>
            \A i \in 1 .. Len(ListEntries(fs, x.n.path).val) :
                LET name == ListEntries(fs, x.n.path).val[i] IN
                (name \notin IGNORED_NAMES /\ IsLinkEntry(Append(x.n.path, name))) =>
                    \E j \in 1 .. Len(x.n.children) :
                        x.n.children[j].path = Append(x.n.path, name)

InSeq(x, s) == \E i \in 1 .. Len(s) : s[i] = x

ListingDenied(x) ==
    x.n.is_dir /\ x.d < scan.max_depth /\ ListEntries(fs, x.n.path).exc = "PermissionError"

NodeAt(tree, p) == CHOOSE y \in Descend(tree, 0) : y.n.path = p

Without(children, p) == SelectSeq(children, LAMBDA c : c.path # p)

\* the same filesystem with the directory at p listable and searchable
Permitted(p) == [fs EXCEPT ![Stat(fs, p).path] = [@ EXCEPT !.perm = "rwx"]]

SiblingsUnaffected(x) ==
    LET other == scan_directory(Permitted(x.n.path), scan.root, scan.max_depth,
                                scan.follow_symlinks)
        parent == Front(x.n.path)
    IN  /\ other.exc = ""
        /\ Without(NodeAt(scan.node, parent).n.children, x.n.path)
             = Without(NodeAt(other.node, parent).n.children, x.n.path)

C6_DeniedListing ==
    \A x \in ScannedNodes :
        ListingDenied(x) =>
            /\ InSeq(x.n.path, scan.stats.permission_denied)
            /\ ~InSeq(x.n.path, scan.stats.errors)
            /\ x.n.children = <<>>
            /\ (x.d >= 1 /\ Scandir(fs, x.n.path).exc = "PermissionError") =>
                  SiblingsUnaffected(x)

\* a denied subdirectory that holds entries, scanned between two siblings
\* of which one is a directory with a child of its own
C6_Witness ==
    \E x \in ScannedNodes :
        /\ ListingDenied(x) /\ x.d = 1
        /\ Scandir(Permitted(x.n.path), x.n.path).val # <<>>
        /\ Len(NodeAt(scan.node, Front(x.n.path)).n.children) >= 3
        /\ \E c \in ScannedNodes : c.d = 1 /\ c.n.is_dir /\ c.n.children # <<>>

(***************************************************************************)
(* C7: in every returned tree each children list is in non-increasing      *)
(* order of size, and children of equal size keep their scan order:        *)
(* entries that are not regular files (directories, and links to them)     *)
(* before regular files, then by case-insensitive name.                    *)
(***************************************************************************)
ScanOrderKey(c) ==
    <<IF StatKind(c.path) = "file" THEN 1 ELSE 0, StrRank(LowerName(c.path[Len(c.path)]))>>

Layouts == IF lay.status = "returned" THEN lay.layouts ELSE <<>>

\* the entries of the nodes that line 82 does not stop at
Expanded ==
    {i \in 1 .. Len(Layouts) :
        ~StopsAt(NodeOf(lay.tree, Layouts[i].node), Layouts[i].depth, lay.max_depth)}

\* the entries whose parent is the node of entry i
ChildrenOf(i) == {j \in 1 .. Len(Layouts) : Layouts[j].parent = Some(Layouts[i].node)}

RectArea(rect) == QMul(rect.width, rect.height)

QLess(x, y) == ~QLE(y, x)

Inside(inner, outer) ==
    /\ QLE(outer.x, inner.x)
    /\ QLE(outer.y, inner.y)
    /\ QLE(QAdd(inner.x, inner.width), QAdd(outer.x, outer.width))
    /\ QLE(QAdd(inner.y, inner.height), QAdd(outer.y, outer.height))

\* the two rectangles share interior area
Overlap(a, b) ==
    /\ QLess(QMax(a.x, b.x), QMin(QAdd(a.x, a.width), QAdd(b.x, b.width)))
    /\ QLess(QMax(a.y, b.y), QMin(QAdd(a.y, a.height), QAdd(b.y, b.height)))

(***************************************************************************)
(* C8: in every returned layout the rectangles of two siblings share no    *)
(* interior area and every child's rectangle lies inside its parent's,     *)
(* viewports of zero width or height and the fallback path included.       *)
(***************************************************************************)
C8_SiblingsDisjointInsideParent ==
    \A i \in 1 .. Len(Layouts) :
        \A j \in ChildrenOf(i) :
            /\ Inside(Layouts[j].rect, Layouts[i].rect)
            /\ \A k \in ChildrenOf(i) :
                  k # j => ~Overlap(Layouts[j].rect, Layouts[k].rect)

(***************************************************************************)
(* C9: in every returned layout the areas of the children's rectangles of  *)
(* an expanded node add up to the area of the node's rectangle, and the    *)
(* children's areas are to each other as their max(size, 1), also when     *)
(* the cap of _squarify is used up.                                        *)
(***************************************************************************)
ChildAreaSum(i) ==
    QSum([j \in 1 .. Len(Layouts) |->
             IF j \in ChildrenOf(i) THEN RectArea(Layouts[j].rect) ELSE Zero],
         1, Len(Layouts))

EntryWeight(j) == QInt(Weight(NodeOf(lay.tree, Layouts[j].node)))

C9_AreaPreservedAndProportional ==
    \A i \in Expanded :
        /\ ChildAreaSum(i) = RectArea(Layouts[i].rect)
        /\ \A j, k \in ChildrenOf(i) :
              QMul(RectArea(Layouts[j].rect), EntryWeight(k))
                  = QMul(RectArea(Layouts[k].rect), EntryWeight(j))

(***************************************************************************)
(* C10: in every returned layout each child of an expanded node has        *)
(* exactly one entry, also when the cap of _squarify is reached while a    *)
(* row is being built.                                                     *)
(***************************************************************************)
EntriesOf(pos) == {j \in 1 .. Len(Layouts) : Layouts[j].node = pos}

C10_EveryChildLaidOutOnce ==
    \A i \in Expanded :
        \A c \in 1 .. Len(NodeOf(lay.tree, Layouts[i].node).children) :
            Cardinality(EntriesOf(Append(Layouts[i].node, c))) = 1

(***************************************************************************)
(* C11: every returned layout is in pre-order.  The first entry is the     *)
(* root with the given bounds, depth 0 and no parent; every other entry    *)
(* comes after the entry of its parent, names as parent the node whose     *)
(* children hold it and is one deeper; an entry and its descendants are    *)
(* one contiguous block.                                                   *)
(***************************************************************************)
RootFirst == Layouts # <<>> => Layouts[1] = NodeRect(<<>>, lay.bounds, 0, None)

\* entry k > 1 is a child of an earlier entry
BelowItsParent(k) ==
    /\ Layouts[k].node # <<>>
    /\ Layouts[k].parent = Some(Front(Layouts[k].node))
    /\ Layouts[k].node[Len(Layouts[k].node)]
           \in 1 .. Len(NodeOf(lay.tree, Front(Layouts[k].node)).children)
    /\ \E j \in 1 .. k - 1 :
          /\ Layouts[j].node = Front(Layouts[k].node)
          /\ Layouts[k].depth = Layouts[j].depth + 1

\* an entry that lies below entry i is preceded by one that is below i or is i
BlocksContiguous ==
    \A i, k \in 1 .. Len(Layouts) :
        (i < k /\ IsPrefix(Layouts[i].node, Layouts[k].node)) =>
            IsPrefix(Layouts[i].node, Layouts[k - 1].node)

C11_PreOrder ==
    /\ RootFirst
    /\ \A k \in 2 .. Len(Layouts) : BelowItsParent(k)
    /\ BlocksContiguous

\* a returned layout in which a node's child at depth 2 stands between the
\* node and a later sibling of the node
C11_Witness ==
    \E i, j, k \in 1 .. Len(Layouts) :
        /\ i < j /\ j < k
        /\ Layouts[i].depth = 1 /\ Layouts[k].depth = 1
        /\ Layouts[j].parent = Some(Layouts[i].node)


(***************************************************************************)
(* C12: slice_and_dice emits a node's own rectangle and nothing below it   *)
(* when the node has no children, has size <= 0 or sits at depth >=        *)
(* max_depth; so with max_depth = d no entry is deeper than d, and with    *)
(* max_depth = None every child of every emitted directory of positive     *)
(* size is emitted, all the way down.                                      *)
(***************************************************************************)
StoppedEntries ==
    {i \in 1 .. Len(Layouts) :
        StopsAt(NodeOf(lay.tree, Layouts[i].node), Layouts[i].depth, lay.max_depth)}

NothingBelowStopped ==
    \A i \in StoppedEntries :
        /\ Cardinality(EntriesOf(Layouts[i].node)) = 1
        /\ \A j \in 1 .. Len(Layouts) :
              IsPrefix(Layouts[i].node, Layouts[j].node) => j = i

NoDeeperThanLimit ==
    lay.max_depth # None =>
        \A i \in 1 .. Len(Layouts) : Layouts[i].depth <= lay.max_depth[1]

WholeTreeWithoutLimit ==
    (lay.status = "returned" /\ lay.max_depth = None) =>
        /\ EntriesOf(<<>>) # {}
        /\ \A i \in 1 .. Len(Layouts) :
              (NodeOf(lay.tree, Layouts[i].node).size > 0) =>
                  \A c \in 1 .. Len(NodeOf(lay.tree, Layouts[i].node).children) :
                      EntriesOf(Append(Layouts[i].node, c)) # {}

C12_StopsAndWholeTree ==
    /\ NothingBelowStopped
    /\ NoDeeperThanLimit
    /\ WholeTreeWithoutLimit


(***************************************************************************)
(* C13: slice_and_dice is deterministic and free of side effects.  A       *)
(* second call with the same tree, bounds and max_depth returns the same   *)
(* sequence of (node, rect, depth, parent) entries as the first, and at    *)
(* every point of either call and after it the tree, the order of every    *)
(* children list included, is as the caller passed it.                     *)
(***************************************************************************)
SecondCallReturned == lay.status = "returned" /\ lay.first # None

FilterRan == flt.status # "idle"
QueryGiven == FilterRan /\ flt.query # <<>>
InputEntries == 1 .. Len(flt.layouts)
InResult(entry) == \E j \in 1 .. Len(flt.result) : flt.result[j] = entry
NodeInResult(node) == \E j \in 1 .. Len(flt.result) : flt.result[j].node = node
IsMatch(node) == Matches(lay.tree, node, Lower(flt.query))
IsAncestor(a, n) == Len(a) < Len(n) /\ IsPrefix(a, n)
MatchedEntries == {i \in InputEntries : IsMatch(flt.layouts[i].node)}
MatchedDirectories ==
    {i \in MatchedEntries : NodeOf(lay.tree, flt.layouts[i].node).is_dir}

\* the node matches, or is an ancestor of a match, or is a descendant of a
\* matching directory
InClosure(node) ==
    \/ IsMatch(node)
    \/ \E i \in MatchedEntries : IsAncestor(node, flt.layouts[i].node)
    \/ \E i \in MatchedDirectories : IsAncestor(flt.layouts[i].node, node)

(***************************************************************************)
(* C14: for a non-empty query filter_layout returns exactly the closure:   *)
(* an entry of the layout is in the result if and only if its node         *)
(* matches the query, is an ancestor of a matching node or is a descendant *)
(* of a matching directory; siblings of matches and descendants of mere    *)
(* ancestors are left out, and no match gives an empty result.             *)
(***************************************************************************)
C14_ExactClosure ==
    QueryGiven =>
        /\ flt.status = "returned"
        /\ \A i \in InputEntries :
              InResult(flt.layouts[i]) <=> InClosure(flt.layouts[i].node)

(***************************************************************************)
(* C15: when a directory of the layout matches the query, every descendant *)
(* of it that the layout holds, at any depth, is in the result.            *)
(***************************************************************************)
C15_DescendantsOfMatchedDirectory ==
    QueryGiven =>
        \A i \in MatchedDirectories :
            \A k \in InputEntries :
                IsAncestor(flt.layouts[i].node, flt.layouts[k].node) =>
                    InResult(flt.layouts[k])

(***************************************************************************)
(* C16: for every node of the layout that matches a non-empty query,       *)
(* every ancestor of it up to the root of the layout is in the result.     *)
(***************************************************************************)
C16_AncestorsOfMatch ==
    QueryGiven =>
        \A i \in MatchedEntries :
            \A n \in 0 .. Len(flt.layouts[i].node) - 1 :
                NodeInResult(SubSeq(flt.layouts[i].node, 1, n))

(***************************************************************************)
(* C17: with an empty query filter_layout returns the layout it was given: *)
(* the same entries in the same order, none added and none removed.        *)
(***************************************************************************)
C17_EmptyQueryIsIdentity ==
    (FilterRan /\ flt.query = <<>>) =>
        /\ flt.status = "returned"
        /\ flt.result = flt.layouts

C17_Witness ==
    /\ flt.status = "returned" /\ flt.query = <<>>
    /\ Len(flt.layouts) >= 3
    /\ Len(flt.result) >= 3

(***************************************************************************)
(* C18: whatever filter_layout yields is a subsequence of the layout it    *)
(* was given: every yielded entry is an entry of the input, none is        *)
(* yielded twice, and the yielded entries keep their input order.          *)
(***************************************************************************)
\* entry `next` stands after entry `entry` somewhere in the input
LaterInInput(entry, next) ==
    \E i \in InputEntries :
        /\ flt.layouts[i] = entry
        /\ \E k \in i + 1 .. Len(flt.layouts) : flt.layouts[k] = next

C19_FilterNeverRaises ==
    (QueryGiven /\ flt.layouts # <<>>) => flt.status = "returned"


(***************************************************************************)
(* C20, as stated: a schedule_scan that passes its path checks supersedes  *)
(* every queued request: no request that was in the queue when it ran is   *)
(* ever scanned, and right after it returns the queue holds at most one    *)
(* request, the new one.                                                   *)
(***************************************************************************)
OnlyTheNewOneAtReturn ==
    app.at_return # None =>
        /\ Len(app.at_return[1]) <= 1
        /\ \A i \in 1 .. Len(app.at_return[1]) : app.at_return[1][i] = app.pending

C20_QueuedAtCallNeverScanned ==
    /\ \A r \in app.superseded : r \notin app.started
    /\ OnlyTheNewOneAtReturn

(***************************************************************************)
(* What the drain does give: every request it takes off the queue is       *)
(* discarded and never scanned, and a request that was queued when         *)
(* schedule_scan began is, once the drain has ended, either discarded or   *)
(* already taken by the worker, never still queued.                        *)
(***************************************************************************)
DrainedNeverScanned ==
    /\ \A r \in app.drained : r \notin app.started
    /\ app.main # "clearing" =>
          \A r \in app.superseded :
              r \notin Elements(app.queue) /\ r \in app.drained \cup app.started

\* a schedule_scan has returned that found a request queued and drained it
DrainedSome ==
    /\ app.at_return # None
    /\ app.in_queue_at_call \cap app.drained # {}


(***************************************************************************)
(* C28: after a scan that returns, the statistics agree with the tree:     *)
(* files_scanned is the number of non-directory nodes, dirs_scanned the    *)
(* number of directory nodes, ignored entries have no node and are counted *)
(* in neither, and every path in permission_denied or errors is the path   *)
(* of a childless directory node, recorded once and in one list only.      *)
(***************************************************************************)
Recorded == scan.stats.permission_denied \o scan.stats.errors

SquarifyProgress ==
    [][(lay.sq # None /\ lay'.sq # None /\ lay'.status = "running") =>
          /\ lay'.sq[1].depth_limit = lay.sq[1].depth_limit - 1
          /\ \/ Len(lay'.sq[1].items) = Len(lay.sq[1].items) - 1
             \/ /\ lay.sq[1].row # <<>>
                /\ lay'.sq[1].row = <<>>
                /\ lay'.sq[1].items = lay.sq[1].items]_vars

FallbackIsOneStep ==
    [][(lay.sq # None /\ lay.sq[1].depth_limit <= 0 /\ lay'.status # "raised") =>
          lay'.sq = None]_vars

(***************************************************************************)
(* C25: laying out any finite list of siblings terminates with a layout:   *)
(* the recursion of _squarify never goes deeper than the cap of 2000, and  *)
(* no call of slice_and_dice, thousands of equal siblings included, ends   *)
(* in an error instead of returning.                                       *)
(***************************************************************************)
C25_LayoutTerminates ==
    /\ lay.sq # None =>
          (lay.sq[1].depth_limit >= 0 /\ lay.sq[1].depth_limit <= DepthLimit)
    /\ lay.status # "raised"


(***************************************************************************)
(* C21.  A scan the worker has taken is not aborted by later requests.     *)
(***************************************************************************)

Requests == 1 .. MaxRequests

\* the positions of the handoffs of a request within a history
HandoffsOf(history, r) == {i \in 1 .. Len(history) : history[i].request = r}

\* the interface thread has run the handoff of request r
HandedOff(r) == HandoffsOf(app.received, r) # {}

OneHandoffAtMost ==
    \A r \in Requests :
        /\ Cardinality(HandoffsOf(app.posted, r)) <= 1
        /\ Cardinality(HandoffsOf(app.received, r)) <= 1
        /\ HandoffsOf(app.posted, r) # {} => r \in app.started
        /\ r \in app.started => r \notin app.drained

\* C21: every request the worker has dequeued is handed to the interface
\* thread exactly once, as an applied tree or as a failure status: never
\* twice, never after being drained, and eventually once, also when
\* schedule_scan is called while the worker scans it.
C21_DequeuedIsHandedOffOnce ==
    /\ []OneHandoffAtMost
    /\ \A r \in Requests : (r \in app.started) ~> HandedOff(r)

\* a request was being scanned when schedule_scan was called, a later
\* request exists, and its handoff has run
C21_Witness ==
    \E r \in app.in_progress_at_call :
        /\ HandedOff(r)
        /\ app.issued > r
        /\ OneHandoffAtMost

(***************************************************************************)
(* C22.  One scan at a time, in the order of the queue.                    *)
(***************************************************************************)

\* the requests taken by the worker whose scan has not ended
InProgress == {r \in Elements(app.dequeued) : HandoffsOf(app.posted, r) = {}}

OneScanInProgress ==
    /\ Cardinality(InProgress) <= 1
    /\ InProgress = IF app.worker > 0 THEN {app.worker} ELSE {}
    /\ \A i, j \in 1 .. Len(app.dequeued) : i < j => app.dequeued[i] < app.dequeued[j]

\* a step in which the worker takes a request: no scan is in progress, and
\* the request is the oldest one left in the queue
TakesTheOldestWhenDone ==
    app.dequeued' # app.dequeued =>
        /\ InProgress = {}
        /\ app.queue # <<>>
        /\ app.dequeued' = Append(app.dequeued, Head(app.queue))
        /\ app.queue' = Tail(app.queue)
        /\ InProgress' = {Head(app.queue)}

\* C22: at most one scan is in progress at any time; the worker takes a
\* request only when its last scan has ended, and takes the oldest request
\* remaining in the queue.
C22_OneScanAtATimeFifo == []OneScanInProgress /\ [][TakesTheOldestWhenDone]_vars

\* a scan is in progress after an earlier one ended, and two requests wait
C22_Witness ==
    /\ Len(app.dequeued) >= 2
    /\ InProgress = {app.worker}
    /\ Len(app.queue) >= 2
    /\ app.posted # <<>>

(***************************************************************************)
(* C23.  The monitor tick and the length of the queue.                     *)
(***************************************************************************)

\* a step in which the monitor tick puts a request
MonitorPuts ==
    /\ app.issued' = app.issued + 1
    /\ app.origin'[app.issued'] = "monitor"

\* the tick puts a request only when at most MAX_SCAN_QUEUE_SIZE wait, and
\* its put returns at once: the request is in the queue, the interface
\* thread is back in its event loop and the next tick is armed
TickPutsOnlyBelowThreshold ==
    MonitorPuts =>
        /\ Len(app.queue) <= MAX_SCAN_QUEUE_SIZE
        /\ app.queue' = Append(app.queue, app.issued')
        /\ app.main' = "idle"
        /\ app.monitor_job'

\* C23: the monitor tick never puts a request when the queue holds more than
\* MAX_SCAN_QUEUE_SIZE requests and never blocks, and the queue never holds
\* more than MAX_SCAN_QUEUE_SIZE + 1 requests.
C23_QueueBounded ==
    /\ [](Len(app.queue) <= MAX_SCAN_QUEUE_SIZE + 1)
    /\ [][TickPutsOnlyBelowThreshold]_vars

\* the queue holds MAX_SCAN_QUEUE_SIZE + 1 requests, the last one put by the
\* tick, a tick is armed, and a further request could still be put
C23_Witness ==
    /\ Len(app.queue) = MAX_SCAN_QUEUE_SIZE + 1
    /\ app.origin[app.queue[Len(app.queue)]] = "monitor"
    /\ app.monitor_job /\ app.main = "idle" /\ app.current_node # 0
    /\ app.issued < MaxRequests

(***************************************************************************)
(* C24.  The interface thread sees finished trees only.                    *)
(***************************************************************************)

\* the requests whose scan returned and whose tree was posted
Finished == {app.posted[i].request : i \in {j \in 1 .. Len(app.posted) :
                                              app.posted[j].kind = "apply"}}

\* what the interface thread holds is unset or a finished tree, and the
\* worker holds no tree it has posted
ShownTreeIsFinished ==
    /\ app.current_node \in {0} \cup Finished
    /\ app.selection \in {0} \cup Finished
    /\ app.snapshot_hash \in {0} \cup Finished
    /\ \A i \in 1 .. Len(app.dialogs) : app.dialogs[i] \in Finished
    /\ app.worker \notin Finished
    /\ \A i \in 1 .. Len(app.posted) : app.posted[i].request # app.worker

\* the tree shown changes only in the step that runs the posted _apply_scan
\* of one finished scan, and becomes the tree of that scan
TreeChangesOnlyInApplyScan ==
    app.current_node' # app.current_node =>
        /\ app.events # <<>>
        /\ Head(app.events).kind = "apply"
        /\ Head(app.events).request \in Finished
        /\ app.current_node' = Head(app.events).request
        /\ app.events' = Tail(app.events)
        /\ app.worker' = app.worker

\* C24: current_node is unset or the tree of a scan that has returned, it
\* changes only in the one step that runs _apply_scan for a finished scan,
\* and the worker never holds a tree it has handed off.
C24_OnlyFinishedTreesShown == []ShownTreeIsFinished /\ [][TreeChangesOnlyInApplyScan]_vars

\* a second tree is shown while the worker builds a third
C24_Witness ==
    /\ app.current_node > 1
    /\ app.worker > app.current_node
    /\ Cardinality(Finished) >= 2
    /\ \E i \in 1 .. Len(app.received) : app.received[i].request = app.current_node

(***************************************************************************)
(* C26.  A scan that raises.                                               *)
(***************************************************************************)

\* a scan has raised in the worker
SomeScanFailed == \E i \in 1 .. Len(app.posted) : app.posted[i].kind = "failed"

\* the worker's step out of a scan that raised
ScanRaises ==
    /\ Len(app.posted') = Len(app.posted) + 1
    /\ app.posted'[Len(app.posted')].kind = "failed"

\* the interface thread's step that runs the failure callback
FailureReported ==
    /\ Len(app.received') = Len(app.received) + 1
    /\ app.received'[Len(app.received')].kind = "failed"

\* neither step changes the tree shown, the selection or the snapshot; the
\* worker is back at get(), and the callback sets the failure status
FailureLeavesTheTreeAlone ==
    /\ ScanRaises =>
          /\ app.worker' = 0
          /\ app.events' = Append(app.events, app.posted'[Len(app.posted')])
          /\ app.current_node' = app.current_node
          /\ app.selection' = app.selection
          /\ app.snapshot_hash' = app.snapshot_hash
    /\ FailureReported =>
          /\ app.status' = "failed"
          /\ app.current_node' = app.current_node
          /\ app.selection' = app.selection
          /\ app.snapshot_hash' = app.snapshot_hash

\* C26: a scan that raises is reported as a status, leaves the tree shown,
\* the selection and the snapshot as they were, and does not stop the
\* worker: every request in the queue after a failure is still dequeued and
\* handed off, unless schedule_scan drains it.
C26_FailureReportedWorkerGoesOn ==
    /\ [][FailureLeavesTheTreeAlone]_vars
    /\ [](app.worker >= 0)
    /\ \A r \in Requests :
          (SomeScanFailed /\ r \in Elements(app.queue)) ~> (HandedOff(r) \/ r \in app.drained)

\* a tree and a selection older than a failure are still there after the
\* failure was reported, and a request put after it was handed off as well
C26_Witness ==
    /\ app.status = "failed"
    /\ app.current_node # 0
    /\ app.selection = app.current_node
    /\ app.snapshot_hash = app.current_node
    /\ \E i, j \in 1 .. Len(app.received) :
          /\ i < j
          /\ app.received[i].kind = "failed"
          /\ app.received[i].request > app.current_node

(***************************************************************************)
(* C27.  The order of the handoffs and the tree shown at rest.             *)
(***************************************************************************)

\* handoffs are posted in the order of the dequeues and run in the order
\* they were posted
HandoffsInOrder ==
    /\ Len(app.posted) <= Len(app.dequeued)
    /\ \A i \in 1 .. Len(app.posted) : app.posted[i].request = app.dequeued[i]
    /\ app.received \o app.events = app.posted

\* the request dequeued last among those whose scan returned a tree; 0 when
\* there is none
LatestSuccessful ==
    IF Finished = {} THEN 0
    ELSE CHOOSE r \in Finished : \A q \in Finished : q <= r

\* the queue is empty and the worker waits
AtRest == app.queue = <<>> /\ app.worker = 0

\* the tree of an earlier request never replaces the tree of a later one
NeverOverwrittenByEarlier ==
    app.current_node' # app.current_node => app.current_node' > app.current_node

\* C27 as stated: the handoffs arrive in the order of the dequeues, and
\* whenever the queue is empty and the worker idle the tree shown is that of
\* the most recently dequeued successful request.
C27_ShownIsLatestAtRest ==
    /\ HandoffsInOrder
    /\ AtRest => app.current_node = LatestSuccessful

\* C27, amended: the handoffs arrive in the order of the dequeues, the tree
\* of an earlier request never replaces that of a later one, and whenever
\* the queue is empty, the worker idle and every posted handoff has been run
\* by the interface thread, the tree shown is that of the most recently
\* dequeued successful request.
C27_ShownIsLatestOnceHandoffsRan ==
    /\ [](HandoffsInOrder
          /\ ((AtRest /\ app.events = <<>>) => app.current_node = LatestSuccessful))
    /\ [][NeverOverwrittenByEarlier]_vars

\* at rest with all handoffs run: a second tree is shown, and a later request
\* that failed has not replaced it
C27_Witness ==
    /\ AtRest /\ app.events = <<>>
    /\ app.current_node = LatestSuccessful
    /\ Cardinality(Finished) >= 2
    /\ \E i \in 1 .. Len(app.received) :
          app.received[i].kind = "failed" /\ app.received[i].request > app.current_node
====
